---- MODULE Spec2Model ----
(***************************************************************************)
(* Model of the BackMeUp database manager: the permission checker          *)
(* (core/permission_checker.py), the user administration handlers          *)
(* (ui/main_window.py, ui/pages/users_page.py) and the backup inventory    *)
(* (ui/pages/backups_page.py, ui/pages/databases.py).                      *)
(*                                                                         *)
(* Strings on which the code computes (lower, replace, strip, split,       *)
(* endswith, strftime) are sequences of one-character strings.  The        *)
(* relational server is an external collaborator: a committed row is       *)
(* visible to every query issued after the commit.                         *)
(***************************************************************************)
EXTENDS Integers, Sequences, FiniteSets, Bags, TLC

\* ------------------------------------------------------------------------
\* Bounds of the model
\* ------------------------------------------------------------------------
MaxRows == 1

\* ------------------------------------------------------------------------
\* Python values and string methods
\* ------------------------------------------------------------------------
PyStr(s) == [none |-> FALSE, str |-> s]

PyNone == [none |-> TRUE, str |-> <<>>]

\* bool(x) of a str or None
Truthy(v) == ~v.none /\ Len(v.str) > 0

UpperToLower == [c \in {"A", "D", "E", "I", "M", "N", "P", "R", "S", "U"} |->
                   CASE c = "A" -> "a" [] c = "D" -> "d" [] c = "E" -> "e"
                     [] c = "I" -> "i" [] c = "M" -> "m" [] c = "N" -> "n"
                     [] c = "P" -> "p" [] c = "R" -> "r" [] c = "S" -> "s"
                     [] c = "U" -> "u"]

\* str.lower()
Lower(s) == [i \in 1..Len(s) |->
               IF s[i] \in DOMAIN UpperToLower THEN UpperToLower[s[i]] ELSE s[i]]

\* s[i:] starts with pat (0 < i)
MatchAt(s, pat, i) ==
  /\ i + Len(pat) - 1 <= Len(s)
  /\ \A k \in 1..Len(pat) : s[i + k - 1] = pat[k]

\* str.endswith(pat)
EndsWith(s, pat) == Len(pat) <= Len(s) /\ MatchAt(s, pat, Len(s) - Len(pat) + 1)

RECURSIVE ReplaceFrom(_, _, _)
\* str.replace(pat, ""): non-overlapping occurrences, left to right
ReplaceFrom(s, pat, i) ==
  IF i > Len(s) THEN <<>>
  ELSE IF MatchAt(s, pat, i) THEN ReplaceFrom(s, pat, i + Len(pat))
  ELSE <<s[i]>> \o ReplaceFrom(s, pat, i + 1)

RECURSIVE LStrip(_)
LStrip(s) == IF s # <<>> /\ Head(s) = " " THEN LStrip(Tail(s)) ELSE s

RECURSIVE RStrip(_)
RStrip(s) == IF s # <<>> /\ s[Len(s)] = " " THEN RStrip(SubSeq(s, 1, Len(s) - 1)) ELSE s

\* str.strip()
Strip(s) == RStrip(LStrip(s))

\* the one character U+2022 that decorates names shown in the Users page
BulletChar == "*"

Bullet == <<BulletChar, " ">>

\* name.replace(Bullet, "").strip()
Clean(s) == Strip(ReplaceFrom(s, Bullet, 1))


\* ------------------------------------------------------------------------
\* Universe of the permission model
\* ------------------------------------------------------------------------
Alice == <<"a", "l", "i", "c", "e">>

Bob == <<"b", "o", "b">>

Usernames == {Alice, Bob}

Hr == <<"h", "r">>

Crm == <<"c", "r", "m">>

\* the databases the server lists (DatabaseManager.get_databases)
DbNames == {Hr, Crm}

\* the column headers of the permissions grid
Perms == {"INSERT", "DELETE", "UPDATE", "CREATE"}

AdminRole == <<"a", "d", "m", "i", "n">>

SuperadminRole == <<"s", "u", "p", "e", "r", "a", "d", "m", "i", "n">>

UserRole == <<"u", "s", "e", "r">>

\* role values a session can carry (users.role is a free-form column)
RoleValues ==
  { PyStr(AdminRole), PyStr(<<"A", "d", "m", "i", "n">>), PyStr(<<"A", "D", "M", "I", "N">>),
    PyStr(SuperadminRole), PyStr(<<"S", "u", "p", "e", "r", "A", "d", "m", "i", "n">>),
    PyStr(UserRole), PyStr(<<"U", "s", "e", "r">>), PyStr(<<"a", "d", "m", "i", "n", "s">>),
    PyStr(<<>>), PyNone }

NoUser == <<>>

NoDb == <<>>

NoSession == [username |-> NoUser, role |-> PyNone]

VARIABLES
  users,             \* table users: username -> [role, is_active]
  user_permissions,  \* table user_permissions: bag of <<username, database_name, permission_type>>
  user_data,         \* MainWindow.user_data (NoSession at the login dialog)
  checker,           \* the PermissionChecker of the DatabasesPage
  checker_db,        \* its db_manager: "no_manager", "no_connection" or "connection"
  main_conn,         \* MainWindow.db_manager.connection: "no_connection" or "connection"
  selected_user,     \* UsersPage.selected_user
  ret,               \* outcome of the last operation, as its caller or the operator sees it
  last_answer        \* history: the last answer _check_permission computed from the table

permVars == <<users, user_permissions, user_data, checker, checker_db, main_conn,
              selected_user, ret, last_answer>>

permVarsNoRet == <<users, user_permissions, user_data, checker, checker_db, main_conn,
                   selected_user, last_answer>>

VARIABLES
  db_name,          \* the database a backup is requested for
  table_name,       \* the table of a table backup
  now,              \* datetime.now() of the request
  backup_filename,  \* the file name the backup builds
  backup_kind,      \* "none", "database" or "table"
  source_db         \* the source database the inventory derives from the name

nameVars == <<db_name, table_name, now, backup_filename, backup_kind, source_db>>

VARIABLES
  dir_files,             \* the directory "backups": file name -> modification time
  backups_table,         \* BackupsPage.backups_table: the rows shown, top first
  last_backup_count,     \* BackupsPage.last_backup_count
  auto_refresh_enabled,  \* BackupsPage.auto_refresh_enabled
  backup_table           \* DatabasesPage.backup_table: the rows shown, top first

invVars == <<dir_files, backups_table, last_backup_count, auto_refresh_enabled, backup_table>>

NoAnswer == [username |-> NoUser, db |-> NoDb, permission_type |-> "none", result |-> FALSE]

\* ------------------------------------------------------------------------
\* core/database.py
\* ------------------------------------------------------------------------
\* DatabaseManager.connect: a new connection on success, the old object kept on failure
connect(conn, server_ok) == IF server_ok THEN "connection" ELSE conn

\* "if not connection.is_connected(): connect()", then the connection is used:
\* connected is the answer of is_connected(), server_ok the success of connect()
Usable(connected, server_ok) == connected \/ server_ok

\* a statement completes, fails, or fails because the connection is lost
QueryOutcomes == {"ok", "error", "lost"}

\* the answers of a call to the server that is made only when called holds
Answers(called) == IF called THEN BOOLEAN ELSE {FALSE}

\* the outcomes of the statements, which run only when the connection is usable
Outcomes(usable) == IF usable THEN QueryOutcomes ELSE {"ok"}

\* ------------------------------------------------------------------------
\* core/permission_checker.py
\* ------------------------------------------------------------------------
\* as PermissionChecker, the role compared as it is spelled
PermissionCheckerCaseSensitive(username, role) ==
  LET r == IF Truthy(role) THEN role.str ELSE UserRole
  IN  [username |-> username, role |-> r, is_admin |-> r \in {AdminRole, SuperadminRole}]

\* PermissionChecker.__init__
PermissionChecker(username, role) ==
  LET r == IF Truthy(role) THEN Lower(role.str) ELSE UserRole
  IN  [username |-> username, role |-> r, is_admin |-> r \in {AdminRole, SuperadminRole}]

\* history: what the same question was answered the time before
Previous(database_name, permission_type) ==
  IF /\ last_answer.username = checker.username
     /\ last_answer.db = database_name
     /\ last_answer.permission_type = permission_type
  THEN IF last_answer.result THEN "granted" ELSE "denied"
  ELSE "none"

\* as CountGrants, the WHERE clause without the database
CountGrantsAnyDatabase(username, database_name, permission_type) ==
  Cardinality({r \in BagToSet(user_permissions) :
                 r[1] = username /\ r[3] = permission_type})

\* SELECT COUNT(*) FROM user_permissions WHERE username, database_name, permission_type
CountGrants(username, database_name, permission_type) ==
  CopiesIn(<<username, database_name, permission_type>>, user_permissions)

\* as CheckPermissionBody, an answer once computed being kept for the next call
CheckPermissionBodyCached(database_name, permission_type, connected, server_ok, query) ==
  IF checker_db \in {"no_manager", "no_connection"}
  THEN [exc |-> FALSE, value |-> FALSE, queried |-> FALSE]
  ELSE IF ~Usable(connected, server_ok) \/ query # "ok"
  THEN [exc |-> TRUE, value |-> FALSE, queried |-> FALSE]
  ELSE [exc |-> FALSE,
        value |-> IF Previous(database_name, permission_type) # "none"
                  THEN last_answer.result
                  ELSE CountGrants(checker.username, database_name, permission_type) > 0,
        queried |-> TRUE]

\* the try block of _check_permission: exc when cursor() or execute() raises
CheckPermissionBody(database_name, permission_type, connected, server_ok, query) ==
  IF checker_db \in {"no_manager", "no_connection"}
  THEN [exc |-> FALSE, value |-> FALSE, queried |-> FALSE]
  ELSE IF ~Usable(connected, server_ok) \/ query # "ok"
  THEN [exc |-> TRUE, value |-> FALSE, queried |-> FALSE]
  ELSE [exc |-> FALSE,
        value |-> CountGrants(checker.username, database_name, permission_type) > 0,
        queried |-> TRUE]

\* as CheckPermissionExcept, the exception passed on to the caller
CheckPermissionExceptRaises(body) == [result |-> FALSE, raised |-> TRUE, queried |-> FALSE]

\* the except clause of _check_permission: deny
CheckPermissionExcept(body) == [result |-> FALSE, raised |-> FALSE, queried |-> FALSE]

\* PermissionChecker._check_permission
check_permission(database_name, permission_type, connected, server_ok, query) ==
  IF checker.is_admin
  THEN [result |-> TRUE, raised |-> FALSE, queried |-> FALSE]
  ELSE LET body == CheckPermissionBody(database_name, permission_type, connected,
                                       server_ok, query)
       IN  IF body.exc THEN CheckPermissionExcept(body)
           ELSE [result |-> body.value, raised |-> FALSE, queried |-> body.queried]

\* the methods that delegate to _check_permission, with the permission type each passes
GrantChecks == {"can_drop_database", "can_create_table", "can_drop_table", "can_insert",
                "can_update", "can_delete", "can_restore"}

\* as PermissionType, can_restore asking for the INSERT grant
PermissionTypeRestoreInsert(fn) ==
  CASE fn = "can_drop_database" -> "DELETE"
    [] fn = "can_create_table"  -> "CREATE"
    [] fn = "can_drop_table"    -> "DELETE"
    [] fn = "can_insert"        -> "INSERT"
    [] fn = "can_update"        -> "UPDATE"
    [] fn = "can_delete"        -> "DELETE"
    [] fn = "can_restore"       -> "INSERT"

PermissionType(fn) ==
  CASE fn = "can_drop_database" -> "DELETE"
    [] fn = "can_create_table"  -> "CREATE"
    [] fn = "can_drop_table"    -> "DELETE"
    [] fn = "can_insert"        -> "INSERT"
    [] fn = "can_update"        -> "UPDATE"
    [] fn = "can_delete"        -> "DELETE"
    [] fn = "can_restore"       -> "CREATE"

\* the checks the pages call: ViewTablesDialog._create_table and _drop_table,
\* DatabasesPage._handle_drop (and _handle_new_database: can_create_database)
UiChecks == {"can_create_table", "can_drop_table", "can_drop_database"}

AllChecks == GrantChecks \cup {"can_create_database", "can_backup"}

HasSession == user_data # NoSession

CheckRet(fn, database_name, r) ==
  [op |-> fn, db |-> database_name, result |-> r.result, raised |-> r.raised,
   queried |-> r.queried,
   previous |-> IF r.queried THEN Previous(database_name, PermissionType(fn)) ELSE "none"]

\* can_drop_database .. can_restore (except can_backup)
CanGrantCheck(fn, database_name) ==
  /\ HasSession
  /\ fn \in GrantChecks
  /\ \E connected \in Answers(~checker.is_admin /\ checker_db = "connection") :
     \E server_ok \in Answers(~checker.is_admin /\ checker_db = "connection" /\ ~connected) :
     \E query \in Outcomes(Usable(connected, server_ok)) :
       ret' = CheckRet(fn, database_name,
                       check_permission(database_name, PermissionType(fn), connected,
                                        server_ok, query))
  /\ UNCHANGED <<users, user_permissions, user_data, checker, checker_db, main_conn,
                 selected_user>>
  /\ UNCHANGED <<nameVars, invVars>>

\* history: the answer of a check that read the table is remembered
\* (ViewTablesDialog._create_table, _drop_table and DatabasesPage._handle_drop call it)
Observe(fn, database_name) ==
  last_answer' =
    IF ret'.queried
    THEN [username |-> checker.username, db |-> database_name,
          permission_type |-> PermissionType(fn), result |-> ret'.result]
    ELSE last_answer

\* a page asks before it acts: ViewTablesDialog._create_table and _drop_table,
\* DatabasesPage._handle_drop
PageCheck(fn, database_name) ==
  /\ fn \in UiChecks
  /\ CanGrantCheck(fn, database_name)
  /\ Observe(fn, database_name)

\* a call of a check of the class, by any caller
DirectCheck(fn, database_name) ==
  /\ CanGrantCheck(fn, database_name)
  /\ UNCHANGED last_answer

\* PermissionChecker.can_create_database
can_create_database ==
  /\ HasSession
  /\ ret' = [op |-> "can_create_database", db |-> NoDb, result |-> checker.is_admin,
             raised |-> FALSE, queried |-> FALSE]
  /\ UNCHANGED <<users, user_permissions, user_data, checker, checker_db, main_conn,
                 selected_user, last_answer>>
  /\ UNCHANGED <<nameVars, invVars>>

\* PermissionChecker.can_backup
can_backup(database_name) ==
  /\ HasSession
  /\ ret' = [op |-> "can_backup", db |-> database_name, result |-> TRUE,
             raised |-> FALSE, queried |-> FALSE]
  /\ UNCHANGED <<users, user_permissions, user_data, checker, checker_db, main_conn,
                 selected_user, last_answer>>
  /\ UNCHANGED <<nameVars, invVars>>

\* ------------------------------------------------------------------------
\* ui/dialog/login_dialog.py, ui/main_window.py: sessions
\* ------------------------------------------------------------------------
NoChecker == [username |-> NoUser, role |-> UserRole, is_admin |-> FALSE]

\* LoginDialog._handle_login, then MainWindow.__init__ with the authenticated user;
\* DatabasesPage.load_real_databases opens the checker's own connection
Login(username) ==
  /\ ~HasSession
  /\ \E connected \in Answers(main_conn = "connection") :
     \E server_ok \in Answers(~connected), page_ok \in BOOLEAN :
       LET usable == IF main_conn = "no_connection" THEN server_ok
                     ELSE Usable(connected, server_ok)
       IN  IF usable /\ username \in DOMAIN users /\ users[username].is_active
           THEN /\ main_conn' = "connection"
                /\ user_data' = [username |-> username, role |-> users[username].role]
                /\ checker' = PermissionChecker(username, users[username].role)
                /\ checker_db' = connect("no_connection", page_ok)
                /\ ret' = [op |-> "login", accepted |-> TRUE]
           ELSE /\ main_conn' = connect(main_conn, usable)
                /\ ret' = [op |-> "login", accepted |-> FALSE]
                /\ UNCHANGED <<user_data, checker, checker_db>>
  /\ UNCHANGED <<users, user_permissions, selected_user, last_answer>>
  /\ UNCHANGED <<nameVars, invVars>>

\* the passwords the rows of the table users store (no statement changes one)
StoredPassword ==
  [u \in Usernames |-> IF u = Alice THEN "alice-secret" ELSE "bob-secret"]

\* what is typed into the password field
Passwords == {"alice-secret", "bob-secret", "guess"}

\* the names typed into the username field: carol has no row
Carol == <<"c", "a", "r", "o", "l">>

LoginNames == Usernames \cup {Carol}

\* as Authenticated, the WHERE clause without "AND is_active = 1"
AuthenticatedAnyRow(table, username, password) ==
  /\ username \in DOMAIN table
  /\ StoredPassword[username] = password

\* _authenticate once the query is answered: the row of the username with
\* is_active = 1, and stored_password == password
Authenticated(table, username, password) ==
  /\ username \in DOMAIN table
  /\ table[username].is_active
  /\ StoredPassword[username] = password

\* LoginDialog._handle_login with _authenticate and _update_last_login, then
\* MainWindow.__init__ with the authenticated user
handle_login(username, password) ==
  /\ ~HasSession
  /\ \E connected \in Answers(main_conn = "connection") :
     \E server_ok \in Answers(~connected), page_ok \in BOOLEAN :
     \E query \in QueryOutcomes :
       LET usable == IF main_conn = "no_connection" THEN server_ok
                     ELSE Usable(connected, server_ok)
           answered == usable /\ query = "ok"
           accepted == answered /\ Authenticated(users, username, password)
       IN  \E still_connected \in Answers(accepted) :
           \E update \in Outcomes(accepted /\ still_connected) :
             /\ ret' = [op |-> "handle_login", username |-> username,
                         password |-> password, answered |-> answered,
                         accepted |-> accepted,
                         last_login_updated |->
                           IF accepted /\ still_connected /\ update = "ok"
                           THEN {username} ELSE {}]
             /\ IF accepted
                THEN /\ main_conn' = "connection"
                     /\ user_data' = [username |-> username, role |-> users[username].role]
                     /\ checker' = PermissionChecker(username, users[username].role)
                     /\ checker_db' = connect("no_connection", page_ok)
                ELSE /\ main_conn' = connect(main_conn, usable)
                     /\ UNCHANGED <<user_data, checker, checker_db>>
  /\ UNCHANGED <<users, user_permissions, selected_user, last_answer>>
  /\ UNCHANGED <<nameVars, invVars>>

\* the addresses typed into the email field of the registration
Emails == {"alice@example.org", "bob@example.org"}

\* as Taken, the username alone looked for
TakenUsernameOnly(table, username, email) == username \in DOMAIN table

\* SELECT id FROM users WHERE username = %s OR email = %s finds a row
Taken(table, username, email) ==
  \/ username \in DOMAIN table
  \/ \E u \in DOMAIN table : table[u].email = email

\* as InsertedUser, the role that of an administrator
InsertedAdmin(email) == [role |-> PyStr(AdminRole), is_active |-> TRUE, email |-> email]

\* the values of INSERT INTO users (..., role, is_active): 'user', True
InsertedUser(email) == [role |-> PyStr(UserRole), is_active |-> TRUE, email |-> email]

\* LoginDialog._handle_register with _register_user, then MainWindow.__init__ with
\* the registered user: the row is inserted with the role 'user' unless the
\* username or the email is in the table already
register_user(username, email) ==
  /\ ~HasSession
  /\ \E connected \in Answers(main_conn = "connection") :
     \E server_ok \in Answers(~connected), page_ok \in BOOLEAN :
       LET usable == IF main_conn = "no_connection" THEN server_ok
                     ELSE Usable(connected, server_ok)
       IN  \E query \in Outcomes(usable /\ ~Taken(users, username, email)) :
             IF usable /\ ~Taken(users, username, email) /\ query = "ok"
             THEN /\ main_conn' = "connection"
                  /\ users' = [u \in DOMAIN users \cup {username} |->
                                IF u = username THEN InsertedUser(email) ELSE users[u]]
                  /\ user_data' = [username |-> username, role |-> PyStr(UserRole)]
                  /\ checker' = PermissionChecker(username, PyStr(UserRole))
                  /\ checker_db' = connect("no_connection", page_ok)
                  /\ ret' = [op |-> "register", username |-> username, email |-> email,
                              accepted |-> TRUE]
             ELSE /\ main_conn' = connect(main_conn, usable)
                  /\ ret' = [op |-> "register", username |-> username, email |-> email,
                              accepted |-> FALSE]
                  /\ UNCHANGED <<users, user_data, checker, checker_db>>
  /\ UNCHANGED <<user_permissions, selected_user, last_answer>>
  /\ UNCHANGED <<nameVars, invVars>>

\* MainWindow.handle_logout, confirmed: the connection is closed, the object kept
handle_logout ==
  /\ HasSession
  /\ user_data' = NoSession
  /\ checker' = NoChecker
  /\ checker_db' = "no_connection"
  /\ selected_user' = NoUser
  /\ ret' = [op |-> "logout"]
  /\ UNCHANGED <<users, user_permissions, main_conn, last_answer>>
  /\ UNCHANGED <<nameVars, invVars>>

\* MainWindow.switch_page: the Users page opens for admin sessions only
UsersPageOpen ==
  /\ HasSession
  /\ ~user_data.role.none
  /\ Lower(user_data.role.str) \in {AdminRole, SuperadminRole}

\* ------------------------------------------------------------------------
\* ui/pages/users_page.py, ui/main_window.py: user administration
\* ------------------------------------------------------------------------
\* UsersPage.permission_checkboxes: one row per listed database, in listing order
GridSeq == <<Bullet \o Crm, Bullet \o Hr>>

GridKeys == {GridSeq[i] : i \in DOMAIN GridSeq}

Checkboxes == GridKeys \X Perms

\* the sets of boxes an administrator leaves checked before saving
CheckedSets == {c \in SUBSET Checkboxes : Cardinality(c) <= MaxRows}

\* perm['permission_type'].upper(): the stored types are the column headers
\* the save wrote, which are upper case
PermUpper == [p \in Perms |-> p]

\* the boxes UsersPage._load_user_permissions checks after the reset: those
\* of the user's rows whose key and type the grid has
Loaded(table, username) ==
  {box \in Checkboxes :
     \E r \in DOMAIN table :
       r[1] = username /\ Bullet \o r[2] = box[1] /\ PermUpper[r[3]] = box[2]}

\* UsersPage._select_user on a listed row (rows are the active users), with
\* _load_user_permissions: without a connection object the boxes stay as
\* they are, a failed query unchecks them all
select_user(row) ==
  /\ UsersPageOpen
  /\ \E u \in DOMAIN users : users[u].is_active /\ row = Bullet \o u
  /\ selected_user' = Clean(row)
  /\ \E connected \in Answers(main_conn = "connection") :
     \E query \in Outcomes(connected) :
     \E kept \in IF main_conn = "no_connection" THEN CheckedSets ELSE {{}} :
       ret' = [op |-> "select_user",
               load |-> IF main_conn = "no_connection" THEN "skipped"
                        ELSE IF ~connected \/ query # "ok" THEN "failed"
                        ELSE "loaded",
               boxes |-> IF main_conn = "no_connection" THEN kept
                         ELSE IF ~connected \/ query # "ok" THEN {}
                         ELSE Loaded(user_permissions, Clean(row))]
  /\ UNCHANGED <<users, user_permissions, user_data, checker, checker_db, main_conn,
                 last_answer>>
  /\ UNCHANGED <<nameVars, invVars>>

\* db_name = db.replace(Bullet, "").strip() of each row (UsersPage._handle_save_permissions)
GridNames == [i \in DOMAIN GridSeq |-> Clean(GridSeq[i])]

\* clean_db_name of each key of the dict (MainWindow._handle_save_permissions)
CleanDbName == [n \in {GridNames[i] : i \in DOMAIN GridSeq} |-> Clean(n)]

\* the dict UsersPage._handle_save_permissions collects: a later row overwrites
\* an earlier one with the same cleaned name
PermissionsData(checked) ==
  [n \in {GridNames[i] : i \in DOMAIN GridSeq} |->
     LET last == CHOOSE i \in DOMAIN GridSeq :
                   /\ GridNames[i] = n
                   /\ \A j \in DOMAIN GridSeq : GridNames[j] = n => j <= i
     IN  [p \in Perms |-> <<GridSeq[last], p>> \in checked]]

\* the rows MainWindow._handle_save_permissions inserts, one per granted item
InsertedRows(username, permissions_data) ==
  LET granted == {np \in (DOMAIN permissions_data) \X Perms : permissions_data[np[1]][np[2]]}
      row(np) == <<username, CleanDbName[np[1]], np[2]>>
  IN  [r \in {row(np) : np \in granted} |-> Cardinality({np \in granted : row(np) = r})]

\* as DeleteGrantsOf, no row deleted
DeleteGrantsOfNone(table, username) == table

\* DELETE FROM user_permissions WHERE username = %s
DeleteGrantsOf(table, username) ==
  [r \in {x \in DOMAIN table : x[1] # username} |-> table[r]]

\* as SavedTable, the inserts without the DELETE before them
SavedTableMerged(table, username, permissions_data) ==
  table (+) InsertedRows(username, permissions_data)

\* the statements of MainWindow._handle_save_permissions up to the commit
SavedTable(table, username, permissions_data) ==
  DeleteGrantsOf(table, username) (+) InsertedRows(username, permissions_data)

\* the permission columns of the grid, in the order the checkboxes are made
PermSeq == <<"INSERT", "DELETE", "UPDATE", "CREATE">>

\* the grid rows whose cleaned name no earlier row has: they make the dict's keys
FirstRows ==
  SelectSeq([i \in DOMAIN GridSeq |-> i],
            LAMBDA i : \A j \in 1..(i - 1) : GridNames[j] # GridNames[i])

\* permissions_data.items() with perms.items() inside, in iteration order
AllItems ==
  [k \in 1..(Len(FirstRows) * Len(PermSeq)) |->
     <<GridNames[FirstRows[((k - 1) \div Len(PermSeq)) + 1]],
       PermSeq[((k - 1) % Len(PermSeq)) + 1]>>]

\* the items the insert loop executes a statement for, in order
GrantedItems(permissions_data) ==
  SelectSeq(AllItems, LAMBDA np : permissions_data[np[1]][np[2]])

\* the rows of the first k INSERT statements of the loop
FirstInserts(username, permissions_data, k) ==
  LET items == GrantedItems(permissions_data)
      row(i) == <<username, CleanDbName[items[i][1]], items[i][2]>>
  IN  [r \in {row(i) : i \in 1..k} |-> Cardinality({i \in 1..k : row(i) = r})]

\* the table as the open transaction sees it after `executed` statements
\* succeeded: none, or the DELETE and the inserts before the failing one
WorkingTable(table, username, inserted, executed) ==
  IF executed = 0 THEN table ELSE DeleteGrantsOf(table, username) (+) inserted

\* the count of statements that can have succeeded when one of them, or the
\* commit, fails
Executed(permissions_data) == 0..(Len(GrantedItems(permissions_data)) + 1)

\* the counts over all the checkbox states an administrator can save
ExecutedCounts == UNION {Executed(PermissionsData(c)) : c \in CheckedSets}

\* the checkbox states whose save can fail after `executed` statements
CheckedWith ==
  [executed \in ExecutedCounts |->
     {c \in CheckedSets : executed \in Executed(PermissionsData(c))}]

\* the rows inserted before the failure, over those checkbox states, as
\* <<username, executed, rows>>
PartialInserts ==
  UNION {{<<username, executed,
            FirstInserts(username, PermissionsData(c),
                         IF executed = 0 THEN 0 ELSE executed - 1)>> :
            c \in CheckedWith[executed]} :
           username \in Usernames, executed \in ExecutedCounts}

\* as Rollback, every statement committed as it ran
RollbackNone(committed, working) == working

\* connection.rollback(), and the server's end of a lost session: the work of
\* the open transaction is discarded
Rollback(committed, working) == committed

PageSaved == "Permissions Saved"

\* UsersPage._handle_save_permissions with MainWindow._handle_save_permissions,
\* which the signal calls before the page reports
save_permissions ==
  /\ UsersPageOpen
  /\ selected_user # NoUser
  /\ \E connected \in Answers(main_conn = "connection") :
     \E server_ok \in Answers(main_conn = "connection" /\ ~connected) :
     \E fail \in Outcomes(Usable(connected, server_ok)) :
       IF main_conn = "no_connection"
       THEN /\ ret' = [op |-> "save_permissions", outcome |-> "no_connection",
                       window_msg |-> "Database Error", page_msg |-> PageSaved]
            /\ UNCHANGED user_permissions
       ELSE IF ~Usable(connected, server_ok)
       THEN \* cursor() raises, and so does rollback()
            /\ ret' = [op |-> "save_permissions", outcome |-> "raised",
                       window_msg |-> "none", page_msg |-> PageSaved]
            /\ UNCHANGED user_permissions
       ELSE IF fail \in {"lost", "error"}
       THEN \* a statement or the commit raises; on a lost connection so does
            \* rollback()
            \E executed \in ExecutedCounts :
              /\ ret' = [op |-> "save_permissions",
                         outcome |-> IF fail = "lost" THEN "raised" ELSE "rolled_back",
                         window_msg |-> IF fail = "lost" THEN "none"
                                        ELSE "Error Saving Permissions",
                         page_msg |-> PageSaved, executed |-> executed]
              /\ user_permissions' \in
                   {Rollback(user_permissions,
                             WorkingTable(user_permissions, selected_user,
                                          t[3], executed)) :
                      t \in {x \in PartialInserts :
                               x[1] = selected_user /\ x[2] = executed}}
       ELSE \E checked \in CheckedSets :
              /\ Cardinality(checked)
                   + BagCardinality(DeleteGrantsOf(user_permissions, selected_user))
                   <= MaxRows
              /\ ret' = [op |-> "save_permissions", outcome |-> "committed",
                         window_msg |-> "Permissions Updated", page_msg |-> PageSaved,
                         username |-> selected_user, checked |-> checked]
              /\ user_permissions' =
                   SavedTable(user_permissions, selected_user, PermissionsData(checked))
  /\ UNCHANGED <<users, user_data, checker, checker_db, main_conn, selected_user,
                 last_answer>>
  /\ UNCHANGED <<nameVars, invVars>>

\* as SoftDeleted, the row deleted
HardDeleted(table, username) == [u \in DOMAIN table \ {username} |-> table[u]]

\* UPDATE users SET is_active = 0 WHERE username = %s
SoftDeleted(table, username) == [table EXCEPT ![username].is_active = FALSE]

PageDeleted == "User Deleted"

\* as DeletesSelf, the test left out
DeletesSelfNever(username, session) == FALSE

\* username == self.user_data.get('username')
DeletesSelf(username, session) == username = session.username

\* UsersPage._handle_delete_user, confirmed, with MainWindow._handle_delete_user
delete_user(row) ==
  /\ UsersPageOpen
  /\ \E u \in DOMAIN users : users[u].is_active /\ row = Bullet \o u
  /\ LET username == Clean(row)
     IN  \E connected \in Answers(main_conn = "connection") :
         \E server_ok \in Answers(main_conn = "connection" /\ ~connected) :
         \E fail \in Outcomes(Usable(connected, server_ok)
                                /\ ~DeletesSelf(username, user_data)) :
           IF main_conn = "no_connection"
           THEN /\ ret' = [op |-> "delete_user", outcome |-> "no_connection",
                           window_msg |-> "none", page_msg |-> PageDeleted,
                           username |-> username]
                /\ UNCHANGED <<users, user_permissions>>
           ELSE IF ~Usable(connected, server_ok)
           THEN /\ ret' = [op |-> "delete_user", outcome |-> "raised",
                           window_msg |-> "none", page_msg |-> PageDeleted,
                           username |-> username]
                /\ UNCHANGED <<users, user_permissions>>
           ELSE IF DeletesSelf(username, user_data)
           THEN /\ ret' = [op |-> "delete_user", outcome |-> "refused",
                           window_msg |-> "Cannot Delete", page_msg |-> PageDeleted,
                           username |-> username]
                /\ UNCHANGED <<users, user_permissions>>
           ELSE IF fail = "lost"
           THEN /\ ret' = [op |-> "delete_user", outcome |-> "raised",
                           window_msg |-> "none", page_msg |-> PageDeleted,
                           username |-> username]
                /\ UNCHANGED <<users, user_permissions>>
           ELSE IF fail = "error"
           THEN /\ ret' = [op |-> "delete_user", outcome |-> "rolled_back",
                           window_msg |-> "Error Deleting User", page_msg |-> PageDeleted,
                           username |-> username]
                /\ UNCHANGED <<users, user_permissions>>
           ELSE /\ ret' = [op |-> "delete_user", outcome |-> "committed",
                           window_msg |-> "none", page_msg |-> PageDeleted,
                           username |-> username]
                /\ users' = SoftDeleted(users, username)
                /\ user_permissions' = DeleteGrantsOf(user_permissions, username)
  /\ UNCHANGED <<user_data, checker, checker_db, main_conn, selected_user, last_answer>>
  /\ UNCHANGED <<nameVars, invVars>>

\* ------------------------------------------------------------------------
\* Backup file names: ui/pages/databases.py, ui/pages/backups_page.py
\* ------------------------------------------------------------------------
MaxNow == 11

Digit(n) == CASE n = 0 -> "0" [] n = 1 -> "1" [] n = 2 -> "2" [] n = 3 -> "3"
              [] n = 4 -> "4" [] n = 5 -> "5" [] n = 6 -> "6" [] n = 7 -> "7"
              [] n = 8 -> "8" [] n = 9 -> "9"

Pad2(n) == <<Digit((n \div 10) % 10), Digit(n % 10)>>

Pad4(n) == <<Digit((n \div 1000) % 10), Digit((n \div 100) % 10)>> \o Pad2(n)

\* datetime.now().strftime("%Y%m%d_%H%M%S"), now counted in seconds from
\* the start of 1 January 2024, within that day
Strftime(t) ==
  Pad4(2024) \o Pad2(1) \o Pad2(1) \o <<"_">>
    \o Pad2(t \div 3600) \o Pad2((t \div 60) % 60) \o Pad2(t % 60)

SqlExt == <<".", "s", "q", "l">>

SqlGzExt == <<".", "s", "q", "l", ".", "g", "z">>

BackupWord == <<"_", "b", "a", "c", "k", "u", "p", "_">>

\* DatabasesPage._handle_backup: f"{db_name}_backup_{timestamp}.sql"
BackupFilename(db, t) == db \o BackupWord \o Strftime(t) \o SqlExt

\* ViewTablesDialog._backup_table: f"{self.db_name}_{table_name}_backup_{timestamp}.sql"
TableBackupFilename(db, tbl, t) == db \o <<"_">> \o tbl \o BackupWord \o Strftime(t) \o SqlExt

Unknown == <<"U", "n", "k", "n", "o", "w", "n">>

Contains(s, c) == \E i \in 1..Len(s) : s[i] = c

\* file_name.split('_')[0]
SplitFirst(s) ==
  IF Contains(s, "_")
  THEN SubSeq(s, 1, (CHOOSE i \in 1..Len(s) :
                       s[i] = "_" /\ \A j \in 1..(i - 1) : s[j] # "_") - 1)
  ELSE s

\* source_db = file_name.split('_')[0] if '_' in file_name else "Unknown"
SourceDb(file_name) == IF Contains(file_name, "_") THEN SplitFirst(file_name) ELSE Unknown

MyDb == <<"m", "y", "_", "d", "b">>

Emp == <<"e", "m", "p">>

\* databases and tables that are backed up
BackupDbNames == {Hr, Crm, MyDb}

TableNames == {Emp, <<"t", "_", "1">>}

NoFile == <<>>

\* the file name of DatabasesPage._handle_backup
handle_backup_name ==
  /\ backup_filename' = BackupFilename(db_name, now)
  /\ backup_kind' = "database"
  /\ source_db' = NoFile
  /\ UNCHANGED <<db_name, table_name, now>>
  /\ UNCHANGED <<permVars, invVars>>

\* the file name of ViewTablesDialog._backup_table
backup_table_name ==
  /\ backup_filename' = TableBackupFilename(db_name, table_name, now)
  /\ backup_kind' = "table"
  /\ source_db' = NoFile
  /\ UNCHANGED <<db_name, table_name, now>>
  /\ UNCHANGED <<permVars, invVars>>

\* the row BackupsPage.load_real_backups shows for the file
list_source_db ==
  /\ backup_kind # "none"
  /\ source_db' = SourceDb(backup_filename)
  /\ UNCHANGED <<db_name, table_name, now, backup_filename, backup_kind>>
  /\ UNCHANGED <<permVars, invVars>>

\* ------------------------------------------------------------------------
\* Backup inventory: ui/pages/backups_page.py, ui/pages/databases.py
\* ------------------------------------------------------------------------
MaxMtime == 2

\* names that files of the backup directory can carry
HrSql == <<"h", "r", "_", "1", ".", "s", "q", "l">>

CrmSqlGz == <<"c", "r", "m", ".", "s", "q", "l", ".", "g", "z">>

HrSqlTxt == <<"h", "r", ".", "s", "q", "l", ".", "t", "x", "t">>

CrmGz == <<"c", "r", "m", ".", "g", "z">>

FileNames == {HrSql, CrmSqlGz, HrSqlTxt, CrmGz}

\* file.endswith('.sql') or file.endswith('.sql.gz')
IsBackupFile(file) == EndsWith(file, SqlExt) \/ EndsWith(file, SqlGzExt)

\* the files the scan of os.listdir keeps
BackupFiles(files) == {f \in DOMAIN files : IsBackupFile(f)}

\* as SortedByMtime, without reverse=True
SortedByMtimeAscending(files, names) ==
  { q \in [1..Cardinality(names) -> names] :
      /\ \A i, j \in DOMAIN q : i # j => q[i] # q[j]
      /\ \A i, j \in DOMAIN q : i < j => files[q[i]] <= files[q[j]] }

\* backup_files.sort(key=getmtime, reverse=True): listdir order is arbitrary, so
\* files with equal times come in any order
SortedByMtime(files, names) ==
  { q \in [1..Cardinality(names) -> names] :
      /\ \A i, j \in DOMAIN q : i # j => q[i] # q[j]
      /\ \A i, j \in DOMAIN q : i < j => files[q[i]] >= files[q[j]] }

\* _add_backup_row and _add_backup_database_row: a row of a file
BackupRow(file_name) ==
  [file_name |-> file_name, source_db |-> SourceDb(file_name), message |-> ""]

\* the row BackupsPage shows in place of files when there is none
NoBackupsRow ==
  [file_name |-> NoFile, source_db |-> NoFile,
   message |-> "No backups found. Create your first backup from Databases page."]

\* the rows load_backup_files adds: the kept files, sorted
LoadedRows(files) ==
  { [i \in DOMAIN q |-> BackupRow(q[i])] : q \in SortedByMtime(files, BackupFiles(files)) }

\* the rows load_real_backups adds
LoadedBackupsRows(files) ==
  IF BackupFiles(files) = {} THEN {<<NoBackupsRow>>} ELSE LoadedRows(files)

\* BackupsPage.load_real_backups
load_real_backups ==
  /\ backups_table' \in LoadedBackupsRows(dir_files)
  /\ last_backup_count' = Cardinality(BackupFiles(dir_files))
  /\ ret' = [op |-> "load_real_backups"]
  /\ UNCHANGED <<dir_files, auto_refresh_enabled, backup_table>>
  /\ UNCHANGED <<permVarsNoRet, nameVars>>

\* BackupsPage._check_for_changes, on the refresh timer
check_for_changes ==
  /\ auto_refresh_enabled
  /\ LET current_count == Cardinality({f \in DOMAIN dir_files : IsBackupFile(f)})
     IN  IF current_count # last_backup_count
         THEN /\ backups_table' \in LoadedBackupsRows(dir_files)
              /\ last_backup_count' = current_count
              /\ ret' = [op |-> "check_for_changes", reloaded |-> TRUE]
         ELSE /\ ret' = [op |-> "check_for_changes", reloaded |-> FALSE]
              /\ UNCHANGED <<backups_table, last_backup_count>>
  /\ UNCHANGED <<dir_files, auto_refresh_enabled, backup_table>>
  /\ UNCHANGED <<permVarsNoRet, nameVars>>

\* BackupsPage.toggle_auto_refresh, on the toggled signal of the checkbox
toggle_auto_refresh(enabled) ==
  /\ enabled # auto_refresh_enabled
  /\ auto_refresh_enabled' = enabled
  /\ ret' = [op |-> "toggle_auto_refresh"]
  /\ UNCHANGED <<dir_files, backups_table, last_backup_count, backup_table>>
  /\ UNCHANGED <<permVarsNoRet, nameVars>>

\* DatabasesPage.load_backup_files
load_backup_files ==
  /\ backup_table' \in LoadedRows(dir_files)
  /\ ret' = [op |-> "load_backup_files"]
  /\ UNCHANGED <<dir_files, backups_table, last_backup_count, auto_refresh_enabled>>
  /\ UNCHANGED <<permVarsNoRet, nameVars>>

\* the directory without a file
WithoutFile(files, file) == [f \in DOMAIN files \ {file} |-> files[f]]

\* the status column BackupsPage._add_backup_row fills in for the row of a file
RowStatus(row) == "Complete"

\* the names of the files the backups list shows as complete
CompleteNames(rows) ==
  {rows[i].file_name :
     i \in {j \in DOMAIN rows : rows[j].message = "" /\ RowStatus(rows[j]) = "Complete"}}

\* the names of the files a table shows a row with buttons for
RowNames(rows) == {rows[i].file_name : i \in {j \in DOMAIN rows : rows[j].message = ""}}

\* BackupsPage._handle_delete, confirmed, on the delete button of a row;
\* removed is whether os.remove succeeds
handle_delete(backup_name) ==
  /\ backup_name \in RowNames(backups_table)
  /\ IF backup_name \in DOMAIN dir_files
     THEN \E removed \in BOOLEAN :
            IF removed
            THEN /\ dir_files' = WithoutFile(dir_files, backup_name)
                 /\ backups_table' \in LoadedBackupsRows(WithoutFile(dir_files, backup_name))
                 /\ last_backup_count' =
                      Cardinality(BackupFiles(WithoutFile(dir_files, backup_name)))
                 /\ ret' = [op |-> "handle_delete", backup_name |-> backup_name,
                            existed |-> TRUE, box |-> "information", title |-> "Deleted"]
            ELSE /\ ret' = [op |-> "handle_delete", backup_name |-> backup_name,
                            existed |-> TRUE, box |-> "critical", title |-> "Error"]
                 /\ UNCHANGED <<dir_files, backups_table, last_backup_count>>
     ELSE /\ ret' = [op |-> "handle_delete", backup_name |-> backup_name,
                     existed |-> FALSE, box |-> "none", title |-> ""]
          /\ UNCHANGED <<dir_files, backups_table, last_backup_count>>
  /\ UNCHANGED <<auto_refresh_enabled, backup_table>>
  /\ UNCHANGED <<permVarsNoRet, nameVars>>

\* DatabasesPage._handle_delete_backup, confirmed, on the delete button of a row
handle_delete_backup(backup_name) ==
  /\ backup_name \in RowNames(backup_table)
  /\ IF backup_name \in DOMAIN dir_files
     THEN \E removed \in BOOLEAN :
            IF removed
            THEN /\ dir_files' = WithoutFile(dir_files, backup_name)
                 /\ backup_table' \in LoadedRows(WithoutFile(dir_files, backup_name))
                 /\ ret' = [op |-> "handle_delete_backup", backup_name |-> backup_name,
                            existed |-> TRUE, box |-> "information",
                            title |-> "Backup Deleted"]
            ELSE /\ ret' = [op |-> "handle_delete_backup", backup_name |-> backup_name,
                            existed |-> TRUE, box |-> "critical", title |-> "Delete Error"]
                 /\ UNCHANGED <<dir_files, backup_table>>
     ELSE /\ ret' = [op |-> "handle_delete_backup", backup_name |-> backup_name,
                     existed |-> FALSE, box |-> "warning", title |-> "File Not Found"]
          /\ UNCHANGED <<dir_files, backup_table>>
  /\ UNCHANGED <<backups_table, last_backup_count, auto_refresh_enabled>>
  /\ UNCHANGED <<permVarsNoRet, nameVars>>

\* some process creates a file in the directory, or writes an existing one anew
FileWritten(file, mtime) ==
  /\ dir_files' = [f \in DOMAIN dir_files \cup {file} |->
                     IF f = file THEN mtime ELSE dir_files[f]]
  /\ ret' = [op |-> "file_written"]
  /\ UNCHANGED <<backups_table, last_backup_count, auto_refresh_enabled, backup_table>>
  /\ UNCHANGED <<permVarsNoRet, nameVars>>

\* some process removes a file from the directory
FileRemoved(file) ==
  /\ file \in DOMAIN dir_files
  /\ dir_files' = [f \in DOMAIN dir_files \ {file} |-> dir_files[f]]
  /\ ret' = [op |-> "file_removed"]
  /\ UNCHANGED <<backups_table, last_backup_count, auto_refresh_enabled, backup_table>>
  /\ UNCHANGED <<permVarsNoRet, nameVars>>

\* ------------------------------------------------------------------------
\* Reconnection: core/database.py, core/permission_checker.py
\* ------------------------------------------------------------------------
\* the calls of connect() of _check_permission: none for an administrator, none
\* without a manager or with a connection of None, one when is_connected() is false
CheckConnects(connected) ==
  IF ~checker.is_admin /\ checker_db = "connection" /\ ~connected THEN 1 ELSE 0

\* a call of a check of the class by any caller, with what it did to the connection
ConnectionCheck(fn, database_name) ==
  /\ HasSession
  /\ fn \in GrantChecks
  /\ ~checker.is_admin
  /\ \E connected \in Answers(checker_db = "connection") :
     \E server_ok \in Answers(checker_db = "connection" /\ ~connected) :
     \E query \in Outcomes(Usable(connected, server_ok)) :
       LET r == check_permission(database_name, PermissionType(fn), connected,
                                 server_ok, query)
       IN  ret' = [op |-> "check", fn |-> fn, live |-> connected,
                   connects |-> CheckConnects(connected),
                   reconnected |-> ~connected /\ server_ok,
                   raised |-> r.raised, failed |-> ~r.result]
  /\ UNCHANGED permVarsNoRet
  /\ UNCHANGED <<nameVars, invVars>>

\* DatabaseManager.get_databases of the manager of the Databases page: connect()
\* if the connection is None or not connected; "except Error" returns [] for an
\* error of the connector, and cursor() of None raises AttributeError past it
get_databases ==
  /\ HasSession
  /\ checker_db # "no_manager"
  /\ \E connected \in Answers(checker_db = "connection") :
     \E server_ok \in Answers(~connected) :
     \E query \in Outcomes(Usable(connected, server_ok)) :
       /\ checker_db' = IF connected THEN checker_db ELSE connect(checker_db, server_ok)
       /\ ret' = [op |-> "get_databases", fn |-> "get_databases", live |-> connected,
                   connects |-> IF connected THEN 0 ELSE 1,
                   reconnected |-> ~connected /\ server_ok,
                   raised |-> checker_db = "no_connection" /\ ~server_ok,
                   failed |-> ~Usable(connected, server_ok) \/ query # "ok"]
  /\ UNCHANGED <<users, user_permissions, user_data, checker, main_conn, selected_user,
                 last_answer>>
  /\ UNCHANGED <<nameVars, invVars>>

\* ------------------------------------------------------------------------
\* Role decisions of the window: ui/main_window.py, ui/sidebar.py
\* ------------------------------------------------------------------------
\* the pages of the stack: dashboard, databases, backups, users, settings
Pages == 0..4

\* Users and Settings
RestrictedPages == {3, 4}

\* role.lower() in ['admin', 'superadmin'] of a role read with
\* user_data.get('role', 'user'): the key is there, so None is not replaced and
\* None.lower() raises AttributeError
RoleIsAdmin(role) ==
  IF role.none
  THEN [raised |-> TRUE, is_admin |-> FALSE]
  ELSE [raised |-> FALSE, is_admin |-> Lower(role.str) \in {AdminRole, SuperadminRole}]

\* MainWindow.switch_page, a slot of the sidebar the window constructed
switch_page(index) ==
  /\ HasSession
  /\ ~RoleIsAdmin(user_data.role).raised
  /\ LET d == RoleIsAdmin(user_data.role)
     IN  ret' = IF d.raised
                THEN [op |-> "switch_page", index |-> index, raised |-> TRUE,
                      is_admin |-> FALSE, box |-> "none", shown |-> "unchanged"]
                ELSE IF index \in RestrictedPages /\ ~d.is_admin
                THEN [op |-> "switch_page", index |-> index, raised |-> FALSE,
                      is_admin |-> d.is_admin, box |-> "Access Denied", shown |-> "0"]
                ELSE [op |-> "switch_page", index |-> index, raised |-> FALSE,
                      is_admin |-> d.is_admin, box |-> "none", shown |-> "index"]
  /\ UNCHANGED permVarsNoRet
  /\ UNCHANGED <<nameVars, invVars>>

\* Sidebar._apply_role_restrictions, called when MainWindow._init_ui constructs
\* the sidebar
apply_role_restrictions ==
  /\ HasSession
  /\ LET d == RoleIsAdmin(user_data.role)
     IN  ret' = [op |-> "apply_role_restrictions", raised |-> d.raised,
                 is_admin |-> d.is_admin,
                 restricted_hidden |-> ~d.raised /\ ~d.is_admin]
  /\ UNCHANGED permVarsNoRet
  /\ UNCHANGED <<nameVars, invVars>>

\* the roles of the sessions whose window was constructed
WindowRoles == {role \in RoleValues : ~RoleIsAdmin(role).raised}

\* ------------------------------------------------------------------------
\* Statements of the Databases page: ui/pages/databases.py
\* ------------------------------------------------------------------------
\* cursor.execute of a statement on a database or on a table of it
Statement(text, database_name, table) ==
  [kind |-> "statement", text |-> text, db |-> database_name, table |-> table,
   stdin |-> NoFile]

\* the states of the page's db_manager and the answers of is_connected() and connect()
PageConnections ==
  {c \in [page_conn : {"no_connection", "connection"}, connected : BOOLEAN,
           server_ok : BOOLEAN] :
     /\ c.page_conn = "no_connection" => ~c.connected
     /\ c.connected => c.server_ok}

\* the connections a handler meets that gets as far as using one
ConnectionsOf(called) ==
  IF called THEN PageConnections
  ELSE {[page_conn |-> "connection", connected |-> TRUE, server_ok |-> TRUE]}

\* the page's connection is used: Usable after "if not self.db_manager or not
\* self.db_manager.connection.is_connected()", which raises on a connection of None
PageUsable(page_conn, connected, server_ok) ==
  page_conn = "connection" /\ Usable(connected, server_ok)

\* ViewTablesDialog._drop_table takes the cursor without asking is_connected()
DirectUsable(page_conn, connected) == page_conn = "connection" /\ connected

\* what the four handlers share: the permission is asked for and a denial ends
\* the handler; then the connection is taken and the statement executed
Gated(check, usable, exec, statement, done, failed) ==
  IF ~check.result
  THEN [checks |-> {check}, effects |-> <<>>, box |-> "warning",
        title |-> "Permission Denied"]
  ELSE IF ~usable
  THEN [checks |-> {check}, effects |-> <<>>, box |-> "critical", title |-> failed]
  ELSE IF exec # "ok"
  THEN [checks |-> {check}, effects |-> <<statement>>, box |-> "critical",
        title |-> failed]
  ELSE [checks |-> {check}, effects |-> <<statement>>, box |-> "information",
        title |-> done]

\* a call of a check by a page and its answer
Asked(fn, database_name, r) == [fn |-> fn, db |-> database_name, result |-> r.result]

\* what a handler of the page leaves as its outcome
PageRet(op, database_name, table, g) ==
  [op |-> op, db |-> database_name, table |-> table, checks |-> g.checks,
   effects |-> g.effects, box |-> g.box, title |-> g.title]

\* the answers a grant check of the page can get
GrantAnswers(fn, database_name) ==
  { Asked(fn, database_name,
          check_permission(database_name, PermissionType(fn), connected, server_ok, query)) :
      connected \in BOOLEAN, server_ok \in BOOLEAN, query \in QueryOutcomes }

\* DatabasesPage._handle_drop, confirmed; load_real_databases follows a drop
handle_drop(database_name) ==
  /\ HasSession
  /\ \E check \in GrantAnswers("can_drop_database", database_name) :
     \E c \in ConnectionsOf(check.result) :
     \E exec \in Outcomes(check.result /\ PageUsable(c.page_conn, c.connected, c.server_ok)) :
     \E reloaded \in Answers(check.result /\ exec = "ok"
                               /\ PageUsable(c.page_conn, c.connected, c.server_ok)) :
       /\ ret' = PageRet("handle_drop", database_name, NoFile,
                         Gated(check, PageUsable(c.page_conn, c.connected, c.server_ok),
                               exec, Statement("DROP DATABASE", database_name, NoFile),
                               "Database Dropped", "Error Dropping Database"))
       /\ IF reloaded THEN backup_table' \in LoadedRows(dir_files)
          ELSE UNCHANGED backup_table
  /\ UNCHANGED <<dir_files, backups_table, last_backup_count, auto_refresh_enabled>>
  /\ UNCHANGED <<permVarsNoRet, nameVars>>

\* ViewTablesDialog._drop_table, confirmed
drop_table(database_name, table) ==
  /\ HasSession
  /\ \E check \in GrantAnswers("can_drop_table", database_name) :
     \E c \in ConnectionsOf(check.result) :
     \E exec \in Outcomes(check.result /\ DirectUsable(c.page_conn, c.connected)) :
       ret' = PageRet("drop_table", database_name, table,
                      Gated(check, DirectUsable(c.page_conn, c.connected), exec,
                            Statement("DROP TABLE", database_name, table),
                            "Table Dropped", "Error Dropping Table"))
  /\ UNCHANGED invVars
  /\ UNCHANGED <<permVarsNoRet, nameVars>>

\* ViewTablesDialog._create_table, with a name and columns entered in the dialog
create_table(database_name, table) ==
  /\ HasSession
  /\ \E check \in GrantAnswers("can_create_table", database_name) :
     \E c \in ConnectionsOf(check.result) :
     \E exec \in Outcomes(check.result /\ PageUsable(c.page_conn, c.connected, c.server_ok)) :
       ret' = PageRet("create_table", database_name, table,
                      Gated(check, PageUsable(c.page_conn, c.connected, c.server_ok), exec,
                            Statement("CREATE TABLE", database_name, table),
                            "Success", "Error Creating Table"))
  /\ UNCHANGED invVars
  /\ UNCHANGED <<permVarsNoRet, nameVars>>

\* DatabasesPage._handle_new_database, with a name entered in the dialog;
\* load_real_databases follows the creation
handle_new_database(database_name) ==
  /\ HasSession
  /\ LET check == Asked("can_create_database", NoDb, [result |-> checker.is_admin])
     IN  \E c \in ConnectionsOf(check.result) :
         \E exec \in Outcomes(check.result
                               /\ PageUsable(c.page_conn, c.connected, c.server_ok)) :
         \E reloaded \in Answers(check.result /\ exec = "ok"
                                   /\ PageUsable(c.page_conn, c.connected, c.server_ok)) :
           /\ ret' = PageRet("handle_new_database", database_name, NoFile,
                             Gated(check,
                                   PageUsable(c.page_conn, c.connected, c.server_ok), exec,
                                   Statement("CREATE DATABASE", database_name, NoFile),
                                   "Success", "Error Creating Database"))
           /\ IF reloaded THEN backup_table' \in LoadedRows(dir_files)
              ELSE UNCHANGED backup_table
  /\ UNCHANGED <<dir_files, backups_table, last_backup_count, auto_refresh_enabled>>
  /\ UNCHANGED <<permVarsNoRet, nameVars>>

\* ------------------------------------------------------------------------
\* Backups: ui/pages/databases.py, ui/pages/dashboard_page.py
\* ------------------------------------------------------------------------
\* how subprocess.run ends: exit code 0, another exit code, or an exception
RunOutcomes == {"exit_zero", "exit_nonzero", "raised"}

\* the directory after open(backup_path, 'w')
WithFile(files, file, mtime) ==
  [f \in DOMAIN files \cup {file} |-> IF f = file THEN mtime ELSE files[f]]

\* as DumpReport, success told by the file being written
DumpReportByFile(run) ==
  IF run \in {"exit_zero", "exit_nonzero"}
  THEN [box |-> "information", title |-> "Backup Successful", detail |-> "backup_filename"]
  ELSE [box |-> "critical", title |-> "Backup Error", detail |-> "str(e)"]

\* the message after subprocess.run: by result.returncode, or the except clause
DumpReport(run) ==
  IF run = "exit_zero"
  THEN [box |-> "information", title |-> "Backup Successful", detail |-> "backup_filename"]
  ELSE IF run = "exit_nonzero"
  THEN [box |-> "critical", title |-> "Backup Failed", detail |-> "result.stderr"]
  ELSE [box |-> "critical", title |-> "Backup Error", detail |-> "str(e)"]

\* as Mysqldump, the file opened before the binary is looked for
MysqldumpOpenFirst(files, file, mysqldump_exists, opened, run, mtime) ==
  IF ~opened
  THEN [files |-> files, started |-> FALSE, box |-> "critical", title |-> "Backup Error",
        detail |-> "str(e)"]
  ELSE IF ~mysqldump_exists
  THEN [files |-> WithFile(files, file, mtime), started |-> FALSE, box |-> "warning",
        title |-> "mysqldump Not Found", detail |-> "mysqldump_path"]
  ELSE [files |-> WithFile(files, file, mtime), started |-> TRUE,
        box |-> DumpReport(run).box, title |-> DumpReport(run).title,
        detail |-> DumpReport(run).detail]

\* the try block the three backups share: the binary is looked for, the file is
\* opened for writing, mysqldump runs with the file as its output
Mysqldump(files, file, mysqldump_exists, opened, run, mtime) ==
  IF ~mysqldump_exists
  THEN [files |-> files, started |-> FALSE, box |-> "warning",
        title |-> "mysqldump Not Found", detail |-> "mysqldump_path"]
  ELSE IF ~opened
  THEN [files |-> files, started |-> FALSE, box |-> "critical", title |-> "Backup Error",
        detail |-> "str(e)"]
  ELSE [files |-> WithFile(files, file, mtime), started |-> TRUE,
        box |-> DumpReport(run).box, title |-> DumpReport(run).title,
        detail |-> DumpReport(run).detail]

\* what a backup leaves as its outcome
BackupRet(op, file, mysqldump_exists, run, r) ==
  [op |-> op, file |-> file, mysqldump_exists |-> mysqldump_exists,
   run |-> IF r.started THEN run ELSE "none", started |-> r.started,
   box |-> r.box, title |-> r.title, detail |-> r.detail]

\* the inputs of a backup that matter: later ones only when earlier ones let it go on
BackupInputs ==
  {i \in [mysqldump_exists : BOOLEAN, opened : BOOLEAN, run : RunOutcomes,
           mtime : 1..MaxMtime] :
     /\ ~i.mysqldump_exists => (i.opened /\ i.run = "exit_zero" /\ i.mtime = 1)
     /\ ~i.opened => (i.run = "exit_zero" /\ i.mtime = 1)}

\* DatabasesPage._handle_backup
handle_backup ==
  /\ \E i \in BackupInputs :
       LET file == BackupFilename(db_name, now)
           r == Mysqldump(dir_files, file, i.mysqldump_exists, i.opened, i.run, i.mtime)
       IN  /\ dir_files' = r.files
           /\ ret' = BackupRet("handle_backup", file, i.mysqldump_exists, i.run, r)
           /\ IF r.started /\ i.run = "exit_zero"
              THEN backup_table' \in LoadedRows(r.files)
              ELSE UNCHANGED backup_table
  /\ UNCHANGED <<backups_table, last_backup_count, auto_refresh_enabled>>
  /\ UNCHANGED <<permVarsNoRet, nameVars>>

\* ViewTablesDialog._backup_table
backup_table_dump ==
  /\ \E i \in BackupInputs :
       LET file == TableBackupFilename(db_name, table_name, now)
           r == Mysqldump(dir_files, file, i.mysqldump_exists, i.opened, i.run, i.mtime)
       IN  /\ dir_files' = r.files
           /\ ret' = BackupRet("backup_table", file, i.mysqldump_exists, i.run, r)
  /\ UNCHANGED <<backups_table, last_backup_count, auto_refresh_enabled, backup_table>>
  /\ UNCHANGED <<permVarsNoRet, nameVars>>

\* DashboardPage._perform_backup (its title carries a check mark before the words)
perform_backup ==
  /\ \E i \in BackupInputs :
       LET file == BackupFilename(db_name, now)
           r == Mysqldump(dir_files, file, i.mysqldump_exists, i.opened, i.run, i.mtime)
       IN  /\ dir_files' = r.files
           /\ ret' = BackupRet("perform_backup", file, i.mysqldump_exists, i.run, r)
  /\ UNCHANGED <<backups_table, last_backup_count, auto_refresh_enabled, backup_table>>
  /\ UNCHANGED <<permVarsNoRet, nameVars>>

\* ------------------------------------------------------------------------
\* Restores: ui/pages/databases.py, ui/pages/dashboard_page.py
\* ------------------------------------------------------------------------
\* restore_db_name = backup_name.split('_')[0]
RestoreDbName(backup_name) == SplitFirst(backup_name)

\* cursor.execute(f"CREATE DATABASE IF NOT EXISTS `{restore_db_name}`")
CreateIfNotExists(database_name) ==
  [kind |-> "statement", text |-> "CREATE DATABASE IF NOT EXISTS", db |-> database_name,
   table |-> NoFile, stdin |-> NoFile]

\* subprocess.run([mysql_path, "-u", "root", "-h", "localhost", restore_db_name], stdin=file)
MysqlLoad(database_name, backup_name) ==
  [kind |-> "process", text |-> "mysql", db |-> database_name, table |-> NoFile,
   stdin |-> backup_name]

\* the message after the load: by result.returncode, or the except clause
LoadReport(run) ==
  IF run = "exit_zero"
  THEN [box |-> "information", title |-> "Restore Successful", detail |-> "backup_name"]
  ELSE IF run = "exit_nonzero"
  THEN [box |-> "critical", title |-> "Restore Failed", detail |-> "result.stderr"]
  ELSE [box |-> "critical", title |-> "Restore Error", detail |-> "str(e)"]

\* as Restore, the database created before the binary is looked for
RestoreCreateFirst(files, backup_name, mysql_exists, usable, create, run) ==
  LET target == RestoreDbName(backup_name)
  IN  IF backup_name \notin DOMAIN files
      THEN [derived |-> FALSE, target |-> NoDb, effects |-> <<>>, run |-> "none",
            box |-> "warning", title |-> "File Not Found", detail |-> "backup_name"]
      ELSE IF ~usable
      THEN [derived |-> TRUE, target |-> target, effects |-> <<>>, run |-> "none",
            box |-> "critical", title |-> "Restore Error", detail |-> "str(e)"]
      ELSE IF create # "ok"
      THEN [derived |-> TRUE, target |-> target, effects |-> <<CreateIfNotExists(target)>>,
            run |-> "none", box |-> "critical", title |-> "Restore Error",
            detail |-> "str(e)"]
      ELSE IF ~mysql_exists
      THEN [derived |-> TRUE, target |-> target, effects |-> <<CreateIfNotExists(target)>>,
            run |-> "none", box |-> "warning", title |-> "mysql Not Found",
            detail |-> "mysql_path"]
      ELSE [derived |-> TRUE, target |-> target,
            effects |-> <<CreateIfNotExists(target), MysqlLoad(target, backup_name)>>,
            run |-> run, box |-> LoadReport(run).box, title |-> LoadReport(run).title,
            detail |-> LoadReport(run).detail]

\* the try block the two restores share: the file is looked for, the name of the
\* database is taken from the name of the file, the binary is looked for, the
\* database is created, mysql runs with the file as its input
Restore(files, backup_name, mysql_exists, usable, create, run) ==
  LET target == RestoreDbName(backup_name)
  IN  IF backup_name \notin DOMAIN files
      THEN [derived |-> FALSE, target |-> NoDb, effects |-> <<>>, run |-> "none",
            box |-> "warning", title |-> "File Not Found", detail |-> "backup_name"]
      ELSE IF ~mysql_exists
      THEN [derived |-> TRUE, target |-> target, effects |-> <<>>, run |-> "none",
            box |-> "warning", title |-> "mysql Not Found", detail |-> "mysql_path"]
      ELSE IF ~usable
      THEN [derived |-> TRUE, target |-> target, effects |-> <<>>, run |-> "none",
            box |-> "critical", title |-> "Restore Error", detail |-> "str(e)"]
      ELSE IF create # "ok"
      THEN [derived |-> TRUE, target |-> target, effects |-> <<CreateIfNotExists(target)>>,
            run |-> "none", box |-> "critical", title |-> "Restore Error",
            detail |-> "str(e)"]
      ELSE [derived |-> TRUE, target |-> target,
            effects |-> <<CreateIfNotExists(target), MysqlLoad(target, backup_name)>>,
            run |-> run, box |-> LoadReport(run).box, title |-> LoadReport(run).title,
            detail |-> LoadReport(run).detail]

\* what a restore leaves as its outcome; checks are the permission checks it called
RestoreRet(op, backup_name, files, mysql_exists, r) ==
  [op |-> op, backup_name |-> backup_name, existed |-> backup_name \in DOMAIN files,
   mysql_exists |-> mysql_exists, derived |-> r.derived, target |-> r.target,
   checks |-> {}, effects |-> r.effects, run |-> r.run, box |-> r.box,
   title |-> r.title, detail |-> r.detail]

\* the dashboard also tests "not self.db_manager.connection" and connects anew
DashboardUsable(page_conn, connected, server_ok) ==
  Usable(page_conn = "connection" /\ connected, server_ok)

\* the inputs of a restore that matter: later ones only when earlier ones let it go on
RestoreInputs ==
  {i \in [mysql_exists : BOOLEAN, page_conn : {"no_connection", "connection"},
           connected : BOOLEAN, server_ok : BOOLEAN, create : QueryOutcomes,
           run : RunOutcomes, reloaded : BOOLEAN] :
     /\ ~i.mysql_exists => i.page_conn = "connection" /\ i.connected
     /\ i.page_conn = "no_connection" => ~i.connected
     /\ i.connected => i.server_ok
     /\ (~i.mysql_exists \/ ~(i.connected \/ i.server_ok)) => i.create = "ok"
     /\ i.create # "ok" => i.run = "exit_zero"
     /\ (i.run # "exit_zero" \/ i.create # "ok" \/ ~i.mysql_exists
           \/ ~(i.connected \/ i.server_ok)) => i.reloaded}

\* DatabasesPage._handle_restore, confirmed in the dialog; on success
\* load_real_databases loads the backup files again if it can connect
handle_restore(backup_name) ==
  /\ HasSession
  /\ backup_name \in RowNames(backup_table)
  /\ \E i \in RestoreInputs :
       LET r == Restore(dir_files, backup_name, i.mysql_exists,
                        PageUsable(i.page_conn, i.connected, i.server_ok), i.create, i.run)
       IN  /\ ret' = RestoreRet("handle_restore", backup_name, dir_files, i.mysql_exists, r)
           /\ IF r.run = "exit_zero" /\ i.reloaded
              THEN backup_table' \in LoadedRows(dir_files)
              ELSE UNCHANGED backup_table
  /\ UNCHANGED <<dir_files, backups_table, last_backup_count, auto_refresh_enabled>>
  /\ UNCHANGED <<permVarsNoRet, nameVars>>

\* DashboardPage._perform_restore, of a file chosen in _handle_restore_database
\* from the backup files the directory held when the dialog opened (its title
\* of success carries a check mark before the words)
perform_restore(backup_file) ==
  /\ HasSession
  /\ IsBackupFile(backup_file)
  /\ \E i \in RestoreInputs :
       LET r == Restore(dir_files, backup_file, i.mysql_exists,
                        DashboardUsable(i.page_conn, i.connected, i.server_ok),
                        i.create, i.run)
       IN  ret' = RestoreRet("perform_restore", backup_file, dir_files, i.mysql_exists, r)
  /\ UNCHANGED invVars
  /\ UNCHANGED <<permVarsNoRet, nameVars>>

\* ------------------------------------------------------------------------
\* Specifications
\* ------------------------------------------------------------------------
vars == <<users, user_permissions, user_data, checker, checker_db, main_conn,
          selected_user, ret, last_answer,
          db_name, table_name, now, backup_filename, backup_kind, source_db,
          dir_files, backups_table, last_backup_count, auto_refresh_enabled,
          backup_table>>

\* the tables as the schema and the first administrator leave them
InitUsers ==
  [u \in Usernames |-> IF u = Alice
                       THEN [role |-> PyStr(AdminRole), is_active |-> TRUE,
                             email |-> "alice@example.org"]
                       ELSE [role |-> PyStr(UserRole), is_active |-> TRUE,
                             email |-> "bob@example.org"]]

\* main(): a DatabaseManager, no connection yet, and the login dialog
InitPerm ==
  /\ users = InitUsers
  /\ user_permissions = EmptyBag
  /\ user_data = NoSession
  /\ checker = NoChecker
  /\ checker_db = "no_connection"
  /\ main_conn = "no_connection"
  /\ selected_user = NoUser
  /\ ret = [op |-> "start"]
  /\ last_answer = NoAnswer

InitNames ==
  /\ db_name = Hr
  /\ table_name = Emp
  /\ now = 0
  /\ backup_filename = NoFile
  /\ backup_kind = "none"
  /\ source_db = NoFile

\* BackupsPage.__init__ and DatabasesPage.__init__ on an empty directory
InitInventory ==
  /\ dir_files = <<>>
  /\ backups_table = <<NoBackupsRow>>
  /\ last_backup_count = 0
  /\ auto_refresh_enabled = TRUE
  /\ backup_table = <<>>

Init == InitPerm /\ InitNames /\ InitInventory

Next ==
  \/ \E u \in Usernames : Login(u)
  \/ handle_logout
  \/ \E fn \in UiChecks, d \in DbNames : PageCheck(fn, d)
  \/ can_create_database
  \/ \E u \in Usernames : select_user(Bullet \o u)
  \/ save_permissions
  \/ \E u \in Usernames : delete_user(Bullet \o u)

Spec == Init /\ [][Next]_vars

\* --- the PermissionChecker alone: any role value, any table, any db_manager ---
GrantRows == Usernames \X DbNames \X Perms

InitChecker ==
  /\ \E u \in Usernames, role \in RoleValues :
       /\ users = [InitUsers EXCEPT ![u].role = role]
       /\ user_data = [username |-> u, role |-> role]
       /\ checker = PermissionChecker(u, role)
  /\ \E rows \in SUBSET GrantRows :
       /\ Cardinality(rows) <= MaxRows
       /\ user_permissions = SetToBag(rows)
  /\ checker_db \in {"no_manager", "no_connection", "connection"}
  /\ main_conn = "connection"
  /\ selected_user = NoUser
  /\ ret = [op |-> "start"]
  /\ last_answer = NoAnswer
  /\ InitNames
  /\ InitInventory

NextChecker ==
  \/ \E fn \in GrantChecks, d \in DbNames : DirectCheck(fn, d)
  \/ can_create_database
  \/ \E d \in DbNames : can_backup(d)

SpecChecker == InitChecker /\ [][NextChecker]_vars

\* --- the file names of backups and what the inventory reads from them ---
InitBackupNames ==
  /\ InitPerm
  /\ InitInventory
  /\ db_name \in BackupDbNames
  /\ table_name \in TableNames
  /\ now \in 0..MaxNow
  /\ backup_filename = NoFile
  /\ backup_kind = "none"
  /\ source_db = NoFile

NextNames ==
  \/ handle_backup_name
  \/ backup_table_name
  \/ list_source_db

SpecNames == InitBackupNames /\ [][NextNames]_vars

\* --- registration, sessions and the administration of users ---
\* the table users before anybody but the administrator has registered
InitRegister ==
  /\ users = [u \in {Alice} |-> InitUsers[u]]
  /\ user_permissions = EmptyBag
  /\ user_data = NoSession
  /\ checker = NoChecker
  /\ checker_db = "no_connection"
  /\ main_conn = "no_connection"
  /\ selected_user = NoUser
  /\ ret = [op |-> "start"]
  /\ last_answer = NoAnswer
  /\ InitNames
  /\ InitInventory

NextUsers ==
  \/ \E u \in Usernames, e \in Emails : register_user(u, e)
  \/ \E u \in Usernames : Login(u)
  \/ handle_logout
  \/ \E u \in Usernames : select_user(Bullet \o u)
  \/ save_permissions
  \/ \E u \in Usernames : delete_user(Bullet \o u)

SpecUsers == InitRegister /\ [][NextUsers]_vars

\* --- the connection of the Databases page and of its checker ---
NextConnection ==
  \/ \E fn \in GrantChecks, d \in DbNames : ConnectionCheck(fn, d)
  \/ get_databases

SpecConnection == InitChecker /\ [][NextConnection]_vars

\* --- logins with passwords, and the users an administrator deletes ---
NextLogin ==
  \/ \E u \in LoginNames, p \in Passwords : handle_login(u, p)
  \/ handle_logout
  \/ \E u \in Usernames : select_user(Bullet \o u)
  \/ save_permissions
  \/ \E u \in Usernames : delete_user(Bullet \o u)

SpecLogin == Init /\ [][NextLogin]_vars

\* --- the permissions grid: grants on a database the grid has no row for ---
Archive == <<"o", "l", "d">>

GridGrantRows == Usernames \X (DbNames \cup {Archive}) \X Perms

InitGrid ==
  /\ users = InitUsers
  /\ \E rows \in SUBSET GridGrantRows :
       /\ Cardinality(rows) <= MaxRows
       /\ user_permissions = SetToBag(rows)
  /\ user_data = [username |-> Alice, role |-> InitUsers[Alice].role]
  /\ checker = PermissionChecker(Alice, InitUsers[Alice].role)
  /\ checker_db = "connection"
  /\ main_conn = "connection"
  /\ selected_user = NoUser
  /\ ret = [op |-> "start"]
  /\ last_answer = NoAnswer
  /\ InitNames
  /\ InitInventory

NextGrid ==
  \/ \E u \in Usernames : select_user(Bullet \o u)
  \/ save_permissions

SpecGrid == InitGrid /\ [][NextGrid]_vars

\* --- the role decisions of a session ---
NextRoles ==
  \/ \E index \in Pages : switch_page(index)
  \/ apply_role_restrictions
  \/ can_create_database

SpecRoles == InitChecker /\ [][NextRoles]_vars

\* --- the statements a session has executed for it ---
\* the grants the checks of the Databases page ask for
PageGrantRows ==
  {r \in GrantRows : r[3] \in {PermissionType(fn) : fn \in UiChecks \cup {"can_restore"}}}

InitPages ==
  /\ \E u \in Usernames, role \in WindowRoles :
       /\ users = [InitUsers EXCEPT ![u].role = role]
       /\ user_data = [username |-> u, role |-> role]
       /\ checker = PermissionChecker(u, role)
  /\ \E rows \in SUBSET PageGrantRows :
       /\ Cardinality(rows) <= MaxRows
       /\ user_permissions = SetToBag(rows)
  /\ checker_db \in {"no_connection", "connection"}
  /\ main_conn = "connection"
  /\ selected_user = NoUser
  /\ ret = [op |-> "start"]
  /\ last_answer = NoAnswer
  /\ InitNames
  /\ dir_files = [f \in {HrSql} |-> 1]
  /\ backup_table \in LoadedRows(dir_files)
  /\ backups_table = <<NoBackupsRow>>
  /\ last_backup_count = 0
  /\ auto_refresh_enabled = TRUE

NextPages ==
  \/ \E d \in DbNames : handle_drop(d)
  \/ \E d \in DbNames : drop_table(d, Emp)
  \/ \E d \in DbNames : create_table(d, Emp)
  \/ \E d \in DbNames : handle_new_database(d)
  \/ \E f \in FileNames : handle_restore(f)
  \/ \E f \in FileNames : perform_restore(f)

SpecPages == InitPages /\ [][NextPages]_vars

\* --- the restores of a session ---
\* the backup files the Databases page listed
ListedFiles == [f \in {HrSql, CrmSqlGz} |-> IF f = HrSql THEN MaxMtime ELSE 1]

\* the grants that can_restore asks for
RestoreGrantRows == {r \in GrantRows : r[3] = PermissionType("can_restore")}

InitRestore ==
  /\ \E u \in Usernames, role \in WindowRoles :
       /\ users = [InitUsers EXCEPT ![u].role = role]
       /\ user_data = [username |-> u, role |-> role]
       /\ checker = PermissionChecker(u, role)
  /\ \E rows \in SUBSET RestoreGrantRows :
       /\ Cardinality(rows) <= MaxRows
       /\ user_permissions = SetToBag(rows)
  /\ checker_db = "connection"
  /\ main_conn = "connection"
  /\ selected_user = NoUser
  /\ ret = [op |-> "start"]
  /\ last_answer = NoAnswer
  /\ InitNames
  /\ \E present \in SUBSET DOMAIN ListedFiles :
       dir_files = [f \in present |-> ListedFiles[f]]
  /\ backup_table \in LoadedRows(ListedFiles)
  /\ backups_table = <<NoBackupsRow>>
  /\ last_backup_count = 0
  /\ auto_refresh_enabled = TRUE

NextRestore ==
  \/ \E f \in FileNames : handle_restore(f)
  \/ \E f \in FileNames : perform_restore(f)

SpecRestore == InitRestore /\ [][NextRestore]_vars

\* --- the backups of a database and of a table ---
InitBackup ==
  /\ InitPerm
  /\ InitInventory
  /\ db_name \in BackupDbNames
  /\ table_name \in TableNames
  /\ now \in 0..MaxNow
  /\ backup_filename = NoFile
  /\ backup_kind = "none"
  /\ source_db = NoFile

NextBackup ==
  \/ handle_backup
  \/ backup_table_dump
  \/ perform_backup
  \/ load_backup_files

SpecBackup == InitBackup /\ [][NextBackup]_vars

\* --- the backups and the list of the Backups page ---
NextListing ==
  \/ handle_backup
  \/ backup_table_dump
  \/ perform_backup
  \/ load_real_backups
  \/ check_for_changes

InitListing ==
  /\ InitPerm
  /\ InitInventory
  /\ InitNames

SpecListing == InitListing /\ [][NextListing]_vars

\* --- the backup directory and the two lists of it ---
NextInventory ==
  \/ load_real_backups
  \/ check_for_changes
  \/ \E enabled \in BOOLEAN : toggle_auto_refresh(enabled)
  \/ load_backup_files
  \/ \E f \in FileNames, m \in 1..MaxMtime : FileWritten(f, m)
  \/ \E f \in FileNames : FileRemoved(f)
  \/ \E f \in FileNames : handle_delete(f)
  \/ \E f \in FileNames : handle_delete_backup(f)

SpecInventory == Init /\ [][NextInventory]_vars

\* ------------------------------------------------------------------------
\* Properties
\* ------------------------------------------------------------------------
\* the role values that spell admin or superadmin in some letter case
AdminSpellings ==
  { PyStr(<<"a", "d", "m", "i", "n">>), PyStr(<<"A", "d", "m", "i", "n">>),
    PyStr(<<"A", "D", "M", "I", "N">>),
    PyStr(<<"s", "u", "p", "e", "r", "a", "d", "m", "i", "n">>),
    PyStr(<<"S", "u", "p", "e", "r", "A", "d", "m", "i", "n">>) }

\* C1: for a session whose role is admin or superadmin in any letter case, every
\* permission check returns true, for every database, whatever rows the grant
\* table holds and whatever the state of the connection.
C1_AdminAlwaysAllowed ==
  (ret.op \in AllChecks /\ user_data.role \in AdminSpellings)
    => (ret.result /\ ~ret.raised)

\* a superadmin spelled with capitals is allowed to delete with no database
\* manager and an empty grant table
C1_Witness ==
  /\ ret.op = "can_delete"
  /\ user_data.role = PyStr(<<"S", "u", "p", "e", "r", "A", "d", "m", "i", "n">>)
  /\ checker_db = "no_manager"
  /\ user_permissions = EmptyBag
  /\ ret.result

\* C2: for a non-admin user with a usable connection, a check for a permission
\* type on a database returns true if and only if the grant table holds at least
\* one row with that user, that database and that permission type.
C2_GrantDecides ==
  (ret.op \in GrantChecks /\ user_data.role \notin AdminSpellings /\ ret.queried)
    => (ret.result <=>
          \E r \in BagToSet(user_permissions) :
            r = <<user_data.username, ret.db, PermissionType(ret.op)>>)

\* the user holds the permission type on another database and is denied
C2_Witness ==
  /\ ret.op \in GrantChecks
  /\ ret.queried
  /\ ~ret.result
  /\ \E r \in BagToSet(user_permissions) :
       r[1] = user_data.username /\ r[3] = PermissionType(ret.op) /\ r[2] # ret.db

DecidingGrant ==
  [can_drop_database |-> "DELETE", can_drop_table |-> "DELETE",
   can_create_table |-> "CREATE", can_restore |-> "CREATE",
   can_insert |-> "INSERT", can_update |-> "UPDATE"]

\* C4: for a non-admin, can_drop_database and can_drop_table are decided by the
\* DELETE grant on the database, can_create_table and can_restore by the CREATE
\* grant, can_insert by INSERT and can_update by UPDATE; can_backup returns true
\* for every user, role and database and reads no grant.
C4_FixedMapping ==
  /\ (ret.op \in DOMAIN DecidingGrant /\ ret.queried)
       => (ret.result <=>
             CopiesIn(<<user_data.username, ret.db, DecidingGrant[ret.op]>>,
                      user_permissions) > 0)
  /\ ret.op = "can_backup" => (ret.result /\ ~ret.queried /\ ~ret.raised)

\* a restore is allowed to a user whose only grant is CREATE on the database
C4_Witness ==
  /\ ret.op = "can_restore"
  /\ ret.queried
  /\ ret.result
  /\ user_permissions = SetToBag({<<user_data.username, ret.db, "CREATE">>})

\* C5: for a non-admin, a check that cannot be completed (no database manager,
\* no connection, a failed reconnect, an exception while querying) returns false
\* and raises nothing to its caller.
C5_FailClosed ==
  (ret.op \in GrantChecks /\ user_data.role \notin AdminSpellings /\ ~ret.queried)
    => (~ret.result /\ ~ret.raised)

\* the query fails on an existing connection, and the user is denied a
\* permission the table grants
C5_Witness ==
  /\ ret.op \in GrantChecks
  /\ user_data.role \notin AdminSpellings
  /\ checker_db = "connection"
  /\ ~ret.queried
  /\ ~ret.result
  /\ ~ret.raised
  /\ CopiesIn(<<user_data.username, ret.db, PermissionType(ret.op)>>, user_permissions) > 0

\* C6: after a successful save for a user with a set of checked (database,
\* permission type) boxes, the grant rows of that user are exactly the checked
\* ones, one row each, whatever the user held before.
C6_SaveReplaces ==
  (ret.op = "save_permissions" /\ ret.outcome = "committed")
    => LET S == {<<SubSeq(c[1], Len(Bullet) + 1, Len(c[1])), c[2]>> : c \in ret.checked}
       IN  /\ {r \in BagToSet(user_permissions) : r[1] = ret.username}
                = {<<ret.username, x[1], x[2]>> : x \in S}
           /\ \A x \in S : CopiesIn(<<ret.username, x[1], x[2]>>, user_permissions) = 1

\* a save that leaves unchecked a grant which a check of the user had found
C6_Witness ==
  /\ ret.op = "save_permissions"
  /\ ret.outcome = "committed"
  /\ ret.checked # {}
  /\ last_answer.username = ret.username
  /\ last_answer.result
  /\ <<Bullet \o last_answer.db, last_answer.permission_type>> \notin ret.checked

\* C7: after any sequence of saves and deletions of users, the grant table holds
\* at most one row for each username, database name and permission type.
C7_AtMostOneRow ==
  \A r \in BagToSet(user_permissions) : CopiesIn(r, user_permissions) <= 1

\* a save that checks again a grant which a check of the user had found
C7_Witness ==
  /\ ret.op = "save_permissions"
  /\ ret.outcome = "committed"
  /\ last_answer.username = ret.username
  /\ last_answer.result
  /\ <<Bullet \o last_answer.db, last_answer.permission_type>> \in ret.checked

\* C8: the source database read from the file name of a backup, of a database
\* or of a table, is the database the backup was made of.
C8_RoundTrip ==
  (backup_kind # "none" /\ source_db # NoFile) => source_db = db_name

\* the names of the files that rows show, top first
ShownNames(rows) ==
  LET file_rows == SelectSeq(rows, LAMBDA r : r.message = "")
  IN  [i \in DOMAIN file_rows |-> file_rows[i].file_name]

\* names list a directory: exactly its files ending in .sql or .sql.gz, each
\* once, a newer file never below an older one
IsListing(names, files) ==
  /\ {names[i] : i \in DOMAIN names} = {HrSql, CrmSqlGz} \cap DOMAIN files
  /\ \A i, j \in DOMAIN names : i # j => names[i] # names[j]
  /\ \A i, j \in DOMAIN names : i < j => files[names[i]] >= files[names[j]]

\* C9: every listing of the backup directory, on the Backups page and on the
\* Databases page, holds exactly the files ending in .sql or .sql.gz, each once,
\* newest first.
C9_Listing ==
  /\ (ret.op = "load_real_backups" \/ (ret.op = "check_for_changes" /\ ret.reloaded))
       => IsListing(ShownNames(backups_table), dir_files)
  /\ ret.op = "load_backup_files" => IsListing(ShownNames(backup_table), dir_files)

\* both backups are listed, the newer above the older, beside two files with
\* other extensions
C9_Witness ==
  /\ ret.op = "load_real_backups"
  /\ Len(backups_table) = 2
  /\ {HrSqlTxt, CrmGz} \subseteq DOMAIN dir_files
  /\ dir_files[backups_table[1].file_name] > dir_files[backups_table[2].file_name]

\* C10: with auto-refresh enabled, once a poll has run the files shown are the
\* matching files of the directory.
C10_PollSyncs ==
  ret.op = "check_for_changes"
    => LET names == ShownNames(backups_table)
       IN  {names[i] : i \in DOMAIN names} = {HrSql, CrmSqlGz} \cap DOMAIN dir_files

\* C11: deleting a backup whose file is absent tells the operator an error,
\* never nothing and never a success; a deletion reported as done has removed the
\* file, and the listing the handler then makes does not contain it.
C11_DeleteReports ==
  ret.op \in {"handle_delete", "handle_delete_backup"}
    => /\ ~ret.existed => ret.box \in {"warning", "critical"}
       /\ ret.box = "information"
            => /\ ret.existed
               /\ ret.backup_name \notin DOMAIN dir_files
               /\ ret.op = "handle_delete" => ret.backup_name \notin RowNames(backups_table)
               /\ ret.op = "handle_delete_backup"
                    => ret.backup_name \notin RowNames(backup_table)

BackupOps == {"handle_backup", "backup_table", "perform_backup"}

\* C12: a backup of a database or of a table looks for the dump binary first;
\* when it is absent the operator is told 'mysqldump Not Found', which is not the
\* message of a failed dump, no process is started and the directory is as before.
C12_BinaryChecked ==
  [][(ret'.op \in BackupOps /\ ~ret'.mysqldump_exists)
       => /\ ret'.title = "mysqldump Not Found"
          /\ ret'.title \notin {DumpReport(run).title : run \in RunOutcomes}
          /\ ~ret'.started
          /\ dir_files' = dir_files]_vars

\* the binary is absent and the file the backup would write is not there
C12_Witness ==
  /\ ret.op \in BackupOps
  /\ ~ret.mysqldump_exists
  /\ ret.file \notin DOMAIN dir_files

\* C13: when the dump process exits with a nonzero code the backup is reported
\* as failed, with the error stream of the process, and not as successful,
\* although the file was created.
C13_NonzeroFails ==
  (ret.op \in BackupOps /\ ret.run = "exit_nonzero")
    => /\ ret.box = "critical"
       /\ ret.title = "Backup Failed"
       /\ ret.detail = "result.stderr"

\* a dump exits nonzero and leaves its file in the directory
C13_Witness ==
  /\ ret.op \in BackupOps
  /\ ret.run = "exit_nonzero"
  /\ ret.file \in DOMAIN dir_files

RestoreOps == {"handle_restore", "perform_restore"}

\* C14: the database a restore loads a backup file into is the source database
\* the listing shows for that file, whether the name has an underscore or not.
C14_SameParsing ==
  (ret.op \in RestoreOps /\ ret.derived) => ret.target = SourceDb(ret.backup_name)

\* C15: a restore executes nothing against the server when the file or the load
\* binary is missing; otherwise CREATE DATABASE IF NOT EXISTS comes first and
\* only then the load process, with the file as its input; a load that exits
\* with a nonzero code is reported as failed.
C15_RestoreOrder ==
  ret.op \in RestoreOps
    => /\ (~ret.existed \/ ~ret.mysql_exists) => ret.effects = <<>>
       /\ Len(ret.effects) <= 2
       /\ \A k \in DOMAIN ret.effects :
            IF k = 1
            THEN ret.effects[k] = CreateIfNotExists(ret.target)
            ELSE ret.effects[k] = MysqlLoad(ret.target, ret.backup_name)
       /\ ret.run = "exit_nonzero"
            => ret.box = "critical" /\ ret.title = "Restore Failed"

\* a load ran after the database was created, and exited with a nonzero code
C15_Witness ==
  /\ ret.op \in RestoreOps
  /\ Len(ret.effects) = 2
  /\ ret.run = "exit_nonzero"

\* C18: a restore by a user who is not an administrator and holds no CREATE
\* grant on the target database executes nothing: the database is created and
\* the load runs only after the check of the restore permission returned true.
C18_RestoreChecked ==
  (ret.op \in RestoreOps /\ ret.effects # <<>>)
    => \/ \E c \in ret.checks : c.fn = "can_restore" /\ c.result
       \/ checker.is_admin
       \/ CountGrants(checker.username, ret.target, "CREATE") > 0

\* C16: a session whose role is empty or None is decided as the role 'user':
\* the checker's admin flag, switch_page and the sidebar's restrictions treat it
\* as not an administrator and none of them raises.
C16_EmptyRoleIsUser ==
  (HasSession /\ ~Truthy(user_data.role))
    => /\ ~checker.is_admin
       /\ ret.op = "can_create_database" => ~ret.result
       /\ ret.op = "switch_page"
            => /\ ~ret.raised
               /\ ~ret.is_admin
               /\ ret.index \in RestrictedPages => ret.box = "Access Denied"
       /\ ret.op = "apply_role_restrictions" => ~ret.raised /\ ret.restricted_hidden

\* the grant rows of a user in a table
GrantsOf(table, username) == {r \in BagToSet(table) : r[1] = username}

\* C17: users are only soft-deleted: whatever is done (register, login, save of
\* permissions, delete of a user), no row of the table users goes away; a delete
\* of a user clears the active flag of that user and removes all grant rows of
\* that user in the same commit, and leaves the rows and the grants of all
\* other users as they were.
C17_SoftDelete ==
  [][/\ DOMAIN users \subseteq DOMAIN users'
     /\ \A u \in DOMAIN users :
          (users[u].is_active /\ ~users'[u].is_active)
            => /\ ret'.op = "delete_user"
               /\ ret'.username = u
               /\ GrantsOf(user_permissions', u) = {}
     /\ (ret'.op = "delete_user" /\ ret'.outcome = "committed")
          => /\ ~users'[ret'.username].is_active
             /\ GrantsOf(user_permissions', ret'.username) = {}
             /\ \A u \in DOMAIN users \ {ret'.username} :
                  /\ users'[u] = users[u]
                  /\ \A r \in GrantsOf(user_permissions, u) \cup GrantsOf(user_permissions', u) :
                       CopiesIn(r, user_permissions') = CopiesIn(r, user_permissions)]_vars

\* bob, who registered, was deleted; alice holds a grant and keeps it
C17_Witness ==
  /\ ret.op = "delete_user"
  /\ ret.outcome = "committed"
  /\ ret.username = Bob
  /\ ~users[Bob].is_active
  /\ GrantsOf(user_permissions, Alice) # {}

\* C20: the operator is told that permissions were saved only if the save was
\* committed, and that a user was deleted only if the active flag of that user
\* was cleared.
C20_ReportsFailure ==
  /\ (ret.op = "save_permissions" /\ ret.page_msg = PageSaved)
       => ret.outcome = "committed"
  /\ (ret.op = "delete_user" /\ ret.page_msg = PageDeleted)
       => ret.outcome = "committed" /\ ~users[ret.username].is_active

PageOps == {"handle_drop", "drop_table", "create_table", "handle_new_database"}

\* C19: in the session of a user who is not an administrator, DROP DATABASE and
\* DROP TABLE are executed on a database only if the user holds the DELETE grant
\* on it, CREATE TABLE only if the user holds the CREATE grant on it, and CREATE
\* DATABASE is never executed; an action that was denied executes no statement.
C19_GrantedStatements ==
  (ret.op \in PageOps \cup RestoreOps /\ ~checker.is_admin)
    => /\ \A k \in DOMAIN ret.effects :
            LET e == ret.effects[k]
            IN  /\ e.text \in {"DROP DATABASE", "DROP TABLE"}
                     => CountGrants(checker.username, e.db, "DELETE") > 0
                /\ e.text = "CREATE TABLE"
                     => CountGrants(checker.username, e.db, "CREATE") > 0
                /\ e.text \notin {"CREATE DATABASE", "CREATE DATABASE IF NOT EXISTS"}
       /\ (\E c \in ret.checks : ~c.result) => ret.effects = <<>>

\* the same of the four handlers that ask for a permission, which holds
C19_GatedStatements ==
  ret.op \in PageOps => C19_GrantedStatements

\* C21: an operation that finds the connection not live (never opened, or
\* dropped) calls connect() exactly once, and when that fails it returns an
\* error value (a denial, an empty list) and does not raise.
C21_OneReconnect ==
  (ret.op \in {"check", "get_databases"} /\ ~ret.live /\ checker_db # "no_manager")
    => /\ ret.connects = 1
       /\ ~ret.raised
       /\ ~ret.reconnected => ret.failed

\* the same of a connection that was opened and has dropped
C21_DroppedReconnect ==
  (ret.op \in {"check", "get_databases"} /\ ~ret.live /\ checker_db = "connection")
    => C21_OneReconnect

\* C22: in a session at most one connection to the server is open, which the
\* permission checks, the administration of users and the backups and restores
\* share: the connection of the window and the connection of the checker of the
\* Databases page, which are two objects, are never open together.
C22_SingleConnection ==
  HasSession => ~(main_conn = "connection" /\ checker_db = "connection")

\* the table users has a row of the username that is active and stores the password
RowMatches(username, password) ==
  /\ username \in DOMAIN users
  /\ users[username].is_active
  /\ StoredPassword[username] = password

\* C23 as stated: a login succeeds if and only if a row of the username exists
\* whose active flag is set and whose stored password is the given one; the
\* last login is written only by a login that succeeded.
C23_LoginIff ==
  ret.op = "handle_login"
    => /\ ret.accepted <=> RowMatches(ret.username, ret.password)
       /\ ret.last_login_updated # {} => ret.accepted

\* C23, amended: a login succeeds only if a row of the username exists whose
\* active flag is set and whose stored password is the given one, and it does
\* succeed for such a row when the server answers the query; no login of a
\* deleted user succeeds; the last login is written only by a login that
\* succeeded, and only of that user.
C23_LoginIffAnswered ==
  ret.op = "handle_login"
    => /\ ret.accepted <=> (ret.answered /\ RowMatches(ret.username, ret.password))
       /\ ret.last_login_updated # {}
            => ret.accepted /\ ret.last_login_updated = {ret.username}

\* a deleted user gives the stored password, the server answers, the login fails
C23_Witness ==
  /\ ret.op = "handle_login"
  /\ ret.answered
  /\ ret.username \in DOMAIN users
  /\ ~users[ret.username].is_active
  /\ StoredPassword[ret.username] = ret.password
  /\ ~ret.accepted

\* no two rows of the table users have the same email
EmailsUnique(table) ==
  \A u, v \in DOMAIN table : table[u].email = table[v].email => u = v

\* C24: usernames and emails stay unique over all rows, active or deleted: a
\* registration whose username or email is that of a row is rejected and leaves
\* the table users as it was, and no two rows come to have the same email.
C24_Unique ==
  [][/\ (ret'.op = "register" /\ Taken(users, ret'.username, ret'.email))
          => users' = users /\ ~ret'.accepted
     /\ EmailsUnique(users')]_vars

\* the username of a deleted user is registered again and is rejected
C24_Witness ==
  /\ ret.op = "register"
  /\ ~ret.accepted
  /\ ret.username \in DOMAIN users
  /\ ~users[ret.username].is_active

\* the users of a table whose role is that of an administrator
AdminsOf(table) ==
  {u \in DOMAIN table : RoleIsAdmin(table[u].role).is_admin}

\* C29: every row a registration inserts has the role 'user' and nothing
\* changes the role of a row, so the users whose role is admin or superadmin
\* are the same after every register, login, save of permissions and delete.
C29_NoEscalation ==
  [][/\ \A u \in DOMAIN users' \ DOMAIN users : users'[u].role = PyStr(UserRole)
     /\ \A u \in DOMAIN users \cap DOMAIN users' : users'[u].role = users[u].role
     /\ AdminsOf(users') = AdminsOf(users)]_vars

\* bob has registered and is a user, alice is the administrator
C29_Witness ==
  /\ ret.op = "register"
  /\ ret.accepted
  /\ ret.username = Bob
  /\ AdminsOf(users) = {Alice}

\* C25: saving permissions is all-or-nothing: a save that does not commit
\* leaves the grant table exactly as it was, whatever statements ran before
\* the failure, and a save that commits leaves the table of the DELETE and
\* all the inserts
C25_AllOrNothing ==
  [][ret'.op = "save_permissions" =>
       IF ret'.outcome = "committed"
       THEN user_permissions' =
              SavedTable(user_permissions, ret'.username,
                         PermissionsData(ret'.checked))
       ELSE user_permissions' = user_permissions]_vars

\* a save failed after the DELETE ran on a user who holds grants
C25_Witness ==
  /\ ret.op = "save_permissions"
  /\ ret.outcome = "rolled_back"
  /\ ret.executed >= 1
  /\ \E r \in DOMAIN user_permissions : r[1] = selected_user

\* C30: a delete-user request whose target is the session's own username
\* never commits: it is refused when the connection can be used and fails
\* before any statement otherwise, and the users table and the grant table
\* stay as they were
C30_NoSelfDelete ==
  [][(ret'.op = "delete_user" /\ ret'.username = user_data.username) =>
       /\ ret'.outcome \in {"refused", "no_connection", "raised"}
       /\ ret'.outcome = "refused" => ret'.window_msg = "Cannot Delete"
       /\ users' = users
       /\ user_permissions' = user_permissions]_vars

\* the administrator's own row was the target, with grants held, and the
\* request was refused
C30_Witness ==
  /\ ret.op = "delete_user"
  /\ ret.outcome = "refused"
  /\ ret.username = user_data.username
  /\ users[user_data.username].is_active
  /\ \E r \in DOMAIN user_permissions : r[1] = user_data.username

\* C26: every row of the grant table belongs to a user whose active flag is
\* set, after any sequence of select-user, save-permissions and delete-user
C26_ActiveHoldGrants ==
  \A r \in DOMAIN user_permissions :
    r[1] \in DOMAIN users /\ users[r[1]].is_active

\* C27: a save right after selecting a user, with the boxes as the selection
\* left them, leaves the user's set of grants as it was
C27_SaveUnchanged ==
  [][(/\ ret.op = "select_user"
      /\ ret'.op = "save_permissions"
      /\ ret'.outcome = "committed"
      /\ ret'.checked = ret.boxes) =>
       GrantsOf(user_permissions', selected_user)
         = GrantsOf(user_permissions, selected_user)]_vars

\* C27, the part that holds: when the load succeeded and every grant of the
\* user is on a database the grid has a row for
C27_SaveLoadedGrid ==
  [][(/\ ret.op = "select_user"
      /\ ret.load = "loaded"
      /\ \A g \in GrantsOf(user_permissions, selected_user) :
           Bullet \o g[2] \in GridKeys
      /\ ret'.op = "save_permissions"
      /\ ret'.outcome = "committed"
      /\ ret'.checked = ret.boxes) =>
       GrantsOf(user_permissions', selected_user)
         = GrantsOf(user_permissions, selected_user)]_vars

\* the operations that run mysqldump
DumpOps == {"handle_backup", "backup_table", "perform_backup"}

\* C28: the file of a dump that was started and did not end with exit code
\* zero is not shown as complete when the backups list is loaded next
C28_CompleteIsExitZero ==
  [][(/\ ret.op \in DumpOps
      /\ ret.started
      /\ ret.run # "exit_zero"
      /\ ret'.op \in {"load_real_backups", "check_for_changes"}) =>
       ret.file \notin CompleteNames(backups_table')]_vars

====
